---- MODULE Spec2Model ----
(***************************************************************************)
(* buttery: exponentially smoothed transform components (src/src/lib.rs).  *)
(*                                                                         *)
(* The attribute type of every modelled component is f32, smoothed by      *)
(* Translate<f32>.  An f32 is modelled bit-exactly as sign, integer        *)
(* significand and binary exponent; +, - and * round to nearest, ties to   *)
(* even, as the hardware does.  Rotate (glam's Quat::slerp) and Mat4       *)
(* arithmetic belong to glam; a Mat4 is modelled as the sequence of the    *)
(* factors it is the product of.                                           *)
(***************************************************************************)
EXTENDS Integers, Sequences, FiniteSets, TLC

(***************************************************************************)
(* f32: IEEE 754 binary32.                                                 *)
(* A finite value is (-1)^s * m * 2^e with m < 2^24; it is normal when     *)
(* m >= 2^23 and subnormal (or zero) when e = MinExp.                      *)
(***************************************************************************)
MantBits == 24
MinExp == -149
MaxExp == 104

Fin(s, m, e) == [k |-> "fin", s |-> s, m |-> m, e |-> e]
Inf(s) == [k |-> "inf", s |-> s, m |-> 0, e |-> 0]
NaN == [k |-> "nan", s |-> 0, m |-> 0, e |-> 0]
Zero(s) == Fin(s, 0, MinExp)

IsZero(x) == x.k = "fin" /\ x.m = 0
IsFinite(x) == x.k = "fin"

Max(a, b) == IF a >= b THEN a ELSE b
Min(a, b) == IF a <= b THEN a ELSE b
Xor(a, b) == IF a = b THEN 0 ELSE 1

RECURSIVE BitLen(_)
BitLen(n) == IF n = 0 THEN 0 ELSE 1 + BitLen(n \div 2)

\* The exact value (-1)^s * (M + d) * 2^E before rounding, where 0 < d < 1
\* when st (sticky) and d = 0 otherwise.  The operations below keep at
\* least three bits below the last place whenever st is set.
Raw(s, M, E, st) == [s |-> s, M |-> M, E |-> E, st |-> st]

\* The exponent of the last place of the rounded result, and how many low
\* bits of r.M lie below it.
LastPlace(r) == Max(r.E + BitLen(r.M) - MantBits, MinExp)
Shift(r) == LastPlace(r) - r.E

\* Whether sh > 0 low bits of M are dropped without loss.
Lossless(M, sh) == sh <= BitLen(M) /\ M % (2 ^ sh) = 0

\* Whether rounding r changes its value (IEEE's inexact flag).
Inexact(r) == r.st \/ (Shift(r) > 0 /\ ~Lossless(r.M, Shift(r)))

\* Overflow gives an infinity.
Pack(s, m, e) ==
    IF e > MaxExp THEN Inf(s) ELSE IF m = 0 THEN Zero(s) ELSE Fin(s, m, e)

\* A significand rounded up to 2^24 carries into the exponent.
Carry(s, q, e) ==
    IF q = 2 ^ MantBits THEN Pack(s, 2 ^ (MantBits - 1), e + 1) ELSE Pack(s, q, e)

\* Round to nearest, ties to even: q is the kept part, rem the dropped part.
RoundUp(q, rem, half, st) ==
    IF rem > half \/ (rem = half /\ (st \/ q % 2 = 1)) THEN q + 1 ELSE q

RoundAt(s, M, st, e1, sh) ==
    IF sh <= 0 THEN Fin(s, M * (2 ^ (0 - sh)), e1)
    ELSE IF sh > BitLen(M) THEN Zero(s)
    ELSE Carry(s, RoundUp(M \div (2 ^ sh), M % (2 ^ sh), 2 ^ (sh - 1), st), e1)

Round(r) ==
    IF r.M = 0 THEN Zero(r.s) ELSE RoundAt(r.s, r.M, r.st, LastPlace(r), Shift(r))

\* x + y for finite non-zero x and y, before rounding: hi is the operand
\* with the larger exponent, d the difference of the exponents, and L the
\* number of guard bits hi is shifted up by.
AddParts(hs, ls, A, B, st, E) ==
    IF hs = ls THEN Raw(hs, A + B, E, st)
    ELSE IF st THEN Raw(hs, A - B - 1, E, TRUE)
    ELSE IF A >= B THEN Raw(hs, A - B, E, FALSE)
    ELSE Raw(ls, B - A, E, FALSE)

AddShifted(hi, lo, L, d) ==
    IF d - L > MantBits THEN AddParts(hi.s, lo.s, hi.m * (2 ^ L), 0, TRUE, hi.e - L)
    ELSE AddParts(hi.s, lo.s, hi.m * (2 ^ L), lo.m \div (2 ^ (d - L)),
                  lo.m % (2 ^ (d - L)) # 0, hi.e - L)

AddRaw(x, y) ==
    IF x.e >= y.e THEN AddShifted(x, y, Min(x.e - y.e, 5), x.e - y.e)
    ELSE AddShifted(y, x, Min(y.e - x.e, 5), y.e - x.e)

\* An exact zero sum is +0.
RoundSum(r) == IF r.M = 0 /\ ~r.st THEN Zero(0) ELSE Round(r)

f32_neg(x) == IF x.k = "nan" THEN NaN ELSE [x EXCEPT !.s = 1 - x.s]

f32_add(x, y) ==
    IF x.k = "nan" \/ y.k = "nan" THEN NaN
    ELSE IF x.k = "inf" /\ y.k = "inf" THEN (IF x.s = y.s THEN x ELSE NaN)
    ELSE IF x.k = "inf" THEN x
    ELSE IF y.k = "inf" THEN y
    ELSE IF IsZero(x) /\ IsZero(y) THEN (IF x.s = y.s THEN x ELSE Zero(0))
    ELSE IF IsZero(x) THEN y
    ELSE IF IsZero(y) THEN x
    ELSE RoundSum(AddRaw(x, y))

f32_sub(x, y) == f32_add(x, f32_neg(y))

\* Whether x + y (x - y) is computed without rounding.
AddExact(x, y) ==
    /\ IsFinite(x) /\ IsFinite(y)
    /\ IsFinite(f32_add(x, y))
    /\ IsZero(x) \/ IsZero(y) \/ ~Inexact(AddRaw(x, y))

SubExact(x, y) == AddExact(x, f32_neg(y))

\* A finite non-zero value with its significand shifted up to 24 bits.
NormBy(x, sh) == [m |-> x.m * (2 ^ sh), e |-> x.e - sh]
Norm(x) == NormBy(x, MantBits - BitLen(x.m))

\* x * y for finite non-zero x and y, before rounding: the 48-bit product
\* of the 24-bit significands from their 12-bit halves, as a high word h
\* and the low 24 bits of low, of which 6 are kept and 18 are sticky.
MulWords(s, h, low, E) ==
    Raw(s, (h + low \div 16777216) * 64 + (low % 16777216) \div 262144, E,
        low % 262144 # 0)

MulSum(s, p11, mid, p00, E) ==
    MulWords(s, p11 + mid \div 4096, (mid % 4096) * 4096 + p00, E)

MulHalves(s, a1, a0, b1, b0, E) ==
    MulSum(s, a1 * b1, a1 * b0 + a0 * b1, a0 * b0, E)

MulNorm(s, a, b) ==
    MulHalves(s, a.m \div 4096, a.m % 4096, b.m \div 4096, b.m % 4096,
              a.e + b.e + 18)

MulRaw(x, y) == MulNorm(Xor(x.s, y.s), Norm(x), Norm(y))

f32_mul(x, y) ==
    IF x.k = "nan" \/ y.k = "nan" THEN NaN
    ELSE IF x.k = "inf" \/ y.k = "inf"
         THEN (IF IsZero(x) \/ IsZero(y) THEN NaN ELSE Inf(Xor(x.s, y.s)))
    ELSE IF IsZero(x) \/ IsZero(y) THEN Zero(Xor(x.s, y.s))
    ELSE Round(MulRaw(x, y))

MulExact(x, y) ==
    /\ IsFinite(x) /\ IsFinite(y)
    /\ IsFinite(f32_mul(x, y))
    /\ IsZero(x) \/ IsZero(y) \/ ~Inexact(MulRaw(x, y))

\* IEEE comparisons: exact, and false when either side is a NaN.  The sign
\* of a rounded difference is the sign of the exact one.
Negative(d) == d.k # "nan" /\ ~IsZero(d) /\ d.s = 1

f32_lt(x, y) ==
    /\ x.k # "nan" /\ y.k # "nan"
    /\ x # y
    /\ Negative(f32_sub(x, y))

f32_eq(x, y) ==
    /\ x.k # "nan" /\ y.k # "nan"
    /\ x = y \/ (IsZero(x) /\ IsZero(y))

f32_le(x, y) == f32_lt(x, y) \/ f32_eq(x, y)

f32_abs(x) == IF x.k = "nan" THEN NaN ELSE [x EXCEPT !.s = 0]

\* The f32 nearest to a small non-negative integer.
OfNat(n) == Round(Raw(0, n, 0, FALSE))


(***************************************************************************)
(* The values the model draws from.                                        *)
(***************************************************************************)
F0 == Zero(0)
F1 == OfNat(1)
F2 == OfNat(2)
F5 == OfNat(5)
F10 == OfNat(10)
\* 1 + 2^-23, the f32 next above 1.0
F1up == Fin(0, 8388609, -23)
\* 2^25
FBig == OfNat(33554432)
\* 9.9f32 = 0x411E6666
F9p9 == Fin(0, 10380902, -20)

\* retention values: 0.0, 2^-13, 0.01, 0.03, 0.04, 0.5 and 1.0 as f32
R0 == F0
RTiny == Fin(0, 8388608, -36)
R001 == Fin(0, 10737418, -30)
R003 == Fin(0, 16106127, -29)
R004 == Fin(0, 10737418, -28)
RHalf == Fin(0, 8388608, -24)
R1 == F1

\* elapsed seconds: 0.0, 1.0, 2.0
Times == {F0, F1, F2}
\* the largest exponent powf is asked for: drive(a + b) with a, b in Times
MaxPow == 4

Comps == {"a", "b", "c"}
\* projections (the closures handed to begin and and_then)
Projs == {"from_translation", "from_scale"}

VARIABLES
    comps,   \* component -> [retention, current, target]
    chain,   \* the chain being built: <<>> or First, Composition, ... nodes
    last,    \* what the last operation was, did and returned
    pre,     \* comps before the last operation
    run,     \* how the component "a" was last set, and its drive calls since
    steps    \* operations so far

vars == <<comps, chain, last, pre, run, steps>>

(***************************************************************************)
(* TransformComponent                                                      *)
(***************************************************************************)
\* TransformComponent::new
new(retention, initial) ==
    [retention |-> retention, current |-> initial, target |-> initial]

new_translate(initial_state) == new(R001, initial_state)
new_zoom(initial_state) == new(R003, initial_state)
new_angle(initial_state) == new(R004, initial_state)

\* the integer n with y = n as f32, for the exponents the model uses
ToNat(y) == CHOOSE n \in 0..MaxPow : OfNat(n) = y

\* x^n by repeated multiplication: exact for n <= 1, correctly rounded for
\* n = 2, and exact for larger n whenever no multiplication rounds.
RECURSIVE PowN(_, _)
PowN(x, n) ==
    IF n = 0 THEN F1
    ELSE IF n = 1 THEN x
    ELSE f32_mul(PowN(x, n - 1), x)

RECURSIVE PowExact(_, _)
PowExact(x, n) ==
    IF n <= 1 THEN IsFinite(x)
    ELSE PowExact(x, n - 1) /\ MulExact(PowN(x, n - 1), x)

\* f32::powf, for exponents that are small non-negative integers
powf(x, y) == PowN(x, ToNat(y))

\* where PowN is the value libm returns: its result is within one unit in
\* the last place, so it is exact whenever the power is representable
PowModelled(x, y) == ToNat(y) <= 2 \/ PowExact(x, ToNat(y))

\* let percent = 1.0 - self.retention.powf(delta_time);
Percent_swapped(retention, delta_time) == powf(retention, delta_time)
Percent(retention, delta_time) == f32_sub(F1, powf(retention, delta_time))

\* <Translate<T> as Smoothed>::drive
Translate_drive_away(target, current, percent) ==
    f32_add(current, f32_mul(f32_sub(current, target), percent))
Translate_drive(target, current, percent) ==
    f32_add(current, f32_mul(f32_sub(target, current), percent))

\* TransformComponent::drive: the component afterwards and the value returned
\* self.current = new_current; new_current
Driven_retarget(self, percent, new_current) ==
    [self |-> [self EXCEPT !.current = new_current, !.target = new_current],
     ret |-> new_current,
     percent |-> percent]
Driven(self, percent, new_current) ==
    [self |-> [self EXCEPT !.current = new_current],
     ret |-> new_current,
     percent |-> percent]

DriveBy(self, percent) ==
    Driven(self, percent, Translate_drive(self.target, self.current, percent))

TransformComponent_drive(self, delta_time) ==
    DriveBy(self, Percent(self.retention, delta_time))

\* TransformComponent::hard_set
hard_set_target_only(self, target) == [self EXCEPT !.target = target]
hard_set(self, target) == [self EXCEPT !.target = target, !.current = target]

(***************************************************************************)
(* Scaffold: First and Composition                                         *)
(***************************************************************************)
\* (self.f)(attrib): the Mat4 a projection makes of an attribute
Apply(f, attrib) == << [f |-> f, x |-> attrib] >>

\* Mat4 * Mat4
Mat4_mul(a, b) == a \o b

Inner(ch) == SubSeq(ch, 1, Len(ch) - 1)
Outer(ch) == ch[Len(ch)]

Call(component, time) == [component |-> component, time |-> time]

\* TransformComponent::begin: the First it returns, and what it did to the
\* components (cs) on the way
begin_eager(cs, self, f) ==
    [chain |-> << [component |-> self, f |-> f] >>,
     cs |-> [cs EXCEPT ![self] = TransformComponent_drive(cs[self], F1).self],
     drives |-> << Call(self, F1) >>,
     applied |-> << f >>]
begin(cs, self, f) ==
    [chain |-> << [component |-> self, f |-> f] >>,
     cs |-> cs,
     drives |-> << >>,
     applied |-> << >>]

\* Scaffold::and_then: the Composition it returns, as the nodes of its inner
\* followed by its own
and_then(cs, inner, next, f) ==
    [chain |-> Append(inner, [component |-> next, f |-> f]),
     cs |-> cs,
     drives |-> << >>,
     applied |-> << >>]

\* <First as Scaffold>::drive
First_driven(node, cs, time, d) ==
    [cs |-> [cs EXCEPT ![node.component] = d.self],
     mat |-> Apply(node.f, d.ret),
     drives |-> << Call(node.component, time) >>,
     applied |-> << node.f >>]

First_drive(node, cs, time) ==
    First_driven(node, cs, time, TransformComponent_drive(cs[node.component], time))

\* (self.f)(attrib) * inner
Composition_result_swapped(own, inner) == Mat4_mul(inner, own)
Composition_result(own, inner) == Mat4_mul(own, inner)

\* <Composition as Scaffold>::drive, after `let inner = self.inner.drive(time)`
\* has returned inner
Composition_drive_undriven(node, inner, time) ==
    [cs |-> inner.cs,
     mat |-> Composition_result(
                 Apply(node.f, inner.cs[node.component].current), inner.mat),
     drives |-> inner.drives,
     applied |-> Append(inner.applied, node.f)]
Composition_driven(node, inner, time, d) ==
    [cs |-> [inner.cs EXCEPT ![node.component] = d.self],
     mat |-> Composition_result(Apply(node.f, d.ret), inner.mat),
     drives |-> Append(inner.drives, Call(node.component, time)),
     applied |-> Append(inner.applied, node.f)]
Composition_drive(node, inner, time) ==
    Composition_driven(node, inner, time,
                       TransformComponent_drive(inner.cs[node.component], time))

\* Scaffold::drive, by the type of the chain: a First, or a Composition
\* whose inner is finalized first
RECURSIVE Scaffold_drive(_, _, _)
Scaffold_drive(ch, cs, time) ==
    IF Len(ch) = 1 THEN First_drive(ch[1], cs, time)
    ELSE Composition_drive(Outer(ch), Scaffold_drive(Inner(ch), cs, time), time)

\* the components a live chain holds &mut borrows of
Borrowed == {chain[k].component : k \in 1..Len(chain)}


(***************************************************************************)
(* Operations                                                              *)
(***************************************************************************)
\* a float field of `last` that the operation does not set
None == NaN

Log(op, component, time, value, ret, percent, ch, drives, applied, mat) ==
    [op |-> op, component |-> component, time |-> time, value |-> value,
     ret |-> ret, percent |-> percent, chain |-> ch, drives |-> drives,
     applied |-> applied, mat |-> mat]

\* the caller assigns the public field: component.target = v
SetTarget(i, v) ==
    /\ i \notin Borrowed
    /\ comps' = [comps EXCEPT ![i].target = v]
    /\ pre' = comps
    /\ last' = Log("set_target", i, None, v, None, None, <<>>, <<>>, <<>>, <<>>)
    /\ UNCHANGED chain

\* component.hard_set(v)
HardSet(i, v) ==
    /\ i \notin Borrowed
    /\ comps' = [comps EXCEPT ![i] = hard_set(comps[i], v)]
    /\ pre' = comps
    /\ last' = Log("hard_set", i, None, v, None, None, <<>>, <<>>, <<>>, <<>>)
    /\ UNCHANGED chain

\* component.drive(delta_time)
Drive(i, delta_time) ==
    /\ i \notin Borrowed
    /\ \E d \in {TransformComponent_drive(comps[i], delta_time)} :
           /\ comps' = [comps EXCEPT ![i] = d.self]
           /\ last' = Log("drive", i, delta_time, None, d.ret, d.percent,
                          <<>>, << Call(i, delta_time) >>, <<>>, <<>>)
    /\ pre' = comps
    /\ UNCHANGED chain

\* component.begin(f)
Begin(i, f) ==
    /\ chain = <<>>
    /\ \E b \in {begin(comps, i, f)} :
           /\ chain' = b.chain
           /\ comps' = b.cs
           /\ last' = Log("begin", i, None, None, None, None, b.chain,
                          b.drives, b.applied, <<>>)
    /\ pre' = comps

\* chain.and_then(&mut component, f)
AndThen(i, f) ==
    /\ chain # <<>>
    /\ i \notin Borrowed
    /\ \E b \in {and_then(comps, chain, i, f)} :
           /\ chain' = b.chain
           /\ comps' = b.cs
           /\ last' = Log("and_then", i, None, None, None, None, b.chain,
                          b.drives, b.applied, <<>>)
    /\ pre' = comps

\* chain.drive(time): consumes the chain
Finish(time) ==
    /\ chain # <<>>
    /\ \E r \in {Scaffold_drive(chain, comps, time)} :
           /\ comps' = r.cs
           /\ last' = Log("chain_drive", "-", time, None, None, None, chain,
                          r.drives, r.applied, r.mat)
    /\ chain' = <<>>
    /\ pre' = comps

\* the chain goes out of scope without being finalized
DropChain ==
    /\ chain # <<>>
    /\ chain' = <<>>
    /\ pre' = comps
    /\ last' = Log("drop", "-", None, None, None, None, chain, <<>>, <<>>, <<>>)
    /\ UNCHANGED comps

NoLog == Log("new", "-", None, None, None, None, <<>>, <<>>, <<>>, <<>>)
NoRun == [how |-> "new", value |-> None, start |-> None, times |-> <<>>]

Step(max) == steps < max /\ steps' = steps + 1

(***************************************************************************)
(* Spec: three components, driven directly and through chains.             *)
(***************************************************************************)
MaxFrames == 3

Targets == {F0, F10}
Frames == {F0, F1}

Init ==
    /\ comps = [i \in Comps |->
                   CASE i = "a" -> new_zoom(F2)
                     [] i = "b" -> new_translate(F1)
                     [] i = "c" -> new_angle(F0)]
    /\ chain = <<>>
    /\ last = NoLog
    /\ pre = comps
    /\ run = NoRun
    /\ steps = 0

Next ==
    \/ \E i \in Comps, v \in Targets :
           SetTarget(i, v) /\ Step(MaxFrames) /\ UNCHANGED run
    \/ \E i \in Comps :
           HardSet(i, F5) /\ Step(MaxFrames) /\ UNCHANGED run
    \/ \E i \in Comps, d \in Frames :
           Drive(i, d) /\ Step(MaxFrames) /\ UNCHANGED run
    \/ \E i \in Comps, f \in Projs :
           Begin(i, f) /\ UNCHANGED <<run, steps>>
    \/ \E i \in Comps, f \in Projs :
           AndThen(i, f) /\ UNCHANGED <<run, steps>>
    \/ \E d \in Frames :
           Finish(d) /\ Step(MaxFrames) /\ UNCHANGED run
    \/ DropChain /\ UNCHANGED <<run, steps>>

Spec == Init /\ [][Next]_vars

(***************************************************************************)
(* SpecComponent: one component, "a", over the values where f32 rounding   *)
(* shows.                                                                  *)
(***************************************************************************)
MaxOps == 4

Retentions == {R0, RTiny, R001, R004, RHalf, R1}
Values == {F0, F1, F5, F10, F1up, FBig}

Started(how, value) ==
    [how |-> how, value |-> value, start |-> comps'["a"].current, times |-> <<>>]

InitComponent ==
    /\ \E r \in Retentions, v \in Values :
           comps = [i \in Comps |-> IF i = "a" THEN new(r, v) ELSE new_translate(F0)]
    /\ chain = <<>>
    /\ last = NoLog
    /\ pre = comps
    /\ run = [how |-> "new", value |-> comps["a"].current,
              start |-> comps["a"].current, times |-> <<>>]
    /\ steps = 0

NextComponent ==
    \/ \E v \in Values :
           SetTarget("a", v) /\ Step(MaxOps) /\ run' = Started("set_target", v)
    \/ \E v \in Values :
           HardSet("a", v) /\ Step(MaxOps) /\ run' = Started("hard_set", v)
    \/ \E d \in Times :
           /\ Drive("a", d) /\ Step(MaxOps)
           /\ run' = [run EXCEPT !.times = Append(@, d)]

SpecComponent == InitComponent /\ [][NextComponent]_vars


(***************************************************************************)
(* Properties of Spec                                                      *)
(***************************************************************************)
Finalized == last.op = "chain_drive"

\* f(X.drive(t)) for the node's component X as it was before the chain was
\* finalized
Factor(node) ==
    Apply(node.f, TransformComponent_drive(pre[node.component], last.time).ret)[1]

\* C1: finalizing a chain of n nodes returns the product of the n
\* projected, driven attributes with the last attached node's factor
\* leftmost and the first node's (begin's) factor rightmost.
C1_ChainOrder ==
    Finalized =>
        /\ Len(last.mat) = Len(last.chain)
        /\ \A k \in 1..Len(last.chain) :
               last.mat[k] = Factor(last.chain[Len(last.chain) + 1 - k])

C1_Witness ==
    /\ Finalized
    /\ Len(last.chain) = 3
    /\ last.time = F1
    /\ comps # pre
    /\ \A j, k \in 1..3 : j # k => last.mat[j] # last.mat[k]

\* C2: finalizing a chain drives each component attached to it exactly
\* once, each with the elapsed time given to the chain's drive, and drives
\* no other component.
C2_DrivenOnce ==
    Finalized =>
        /\ Len(last.drives) = Len(last.chain)
        /\ \A k \in 1..Len(last.chain) :
               Cardinality({j \in 1..Len(last.drives) :
                   last.drives[j].component = last.chain[k].component}) = 1
        /\ \A j \in 1..Len(last.drives) : last.drives[j].time = last.time
        /\ \A k \in 1..Len(last.chain) :
               comps[last.chain[k].component]
                   = TransformComponent_drive(pre[last.chain[k].component],
                                              last.time).self
        /\ \A i \in Comps :
               (\A k \in 1..Len(last.chain) : last.chain[k].component # i)
                   => comps[i] = pre[i]

C2_Witness ==
    /\ Finalized
    /\ Len(last.chain) = 3
    /\ last.time = F1
    /\ \E i \in Comps : comps[i].current # pre[i].current

\* C9: a drive call, direct or through a chain, changes no component's
\* target or retention; a target changes only by a caller's assignment or
\* hard_set, and a retention never.
C9_DriveFrame ==
    /\ last.op \in {"drive", "chain_drive"} =>
           \A i \in Comps : /\ comps[i].target = pre[i].target
                            /\ comps[i].retention = pre[i].retention
    /\ \A i \in Comps :
           /\ comps[i].target # pre[i].target =>
                  last.op \in {"set_target", "hard_set"} /\ last.component = i
           /\ comps[i].retention = pre[i].retention

C9_Witness ==
    /\ Finalized
    /\ Len(last.chain) >= 2
    /\ \E i \in Comps : /\ comps[i].current # pre[i].current
                        /\ comps[i].current # comps[i].target

\* C10: begin and and_then (and dropping a chain that was never finalized)
\* change no component, drive none and apply no projection; projections
\* are applied only by the chain's drive, one per node.
C10_LazyBuild ==
    /\ last.op \in {"begin", "and_then", "drop"} =>
           comps = pre /\ last.drives = <<>> /\ last.applied = <<>>
    /\ last.applied # <<>> => Finalized
    /\ Finalized =>
           /\ Len(last.applied) = Len(last.chain)
           /\ \A k \in 1..Len(last.chain) : last.applied[k] = last.chain[k].f

C10_Witness ==
    /\ last.op = "drop"
    /\ Len(last.chain) = 3
    /\ \E k \in 1..3 :
           comps[last.chain[k].component].current
               # comps[last.chain[k].component].target

(***************************************************************************)
(* Properties of SpecComponent                                             *)
(***************************************************************************)
A == comps["a"]
PreA == pre["a"]
Drove == last.op = "drive"

\* |target - current| as an f32
Dist(self) == f32_abs(f32_sub(self.target, self.current))

C6_Original ==
    (Drove /\ PreA.retention = R0) => last.percent = F1 /\ A.current = A.target

\* C6 amended: with retention 0 every drive call with elapsed_seconds > 0
\* has percent = 1, and sets current equal to target whenever the
\* subtraction target - current is exact.
C6_SnapWhenPositive ==
    (Drove /\ PreA.retention = R0 /\ f32_lt(F0, last.time)) =>
        /\ last.percent = F1
        /\ SubExact(PreA.target, PreA.current) => A.current = A.target

C6_Witness ==
    /\ Drove
    /\ PreA.retention = R0
    /\ last.time = F2
    /\ PreA.current # PreA.target
    /\ SubExact(PreA.target, PreA.current)
    /\ A.current = A.target

\* x lies between a and b (inclusive)
Between(a, x, b) ==
    \/ f32_le(a, x) /\ f32_le(x, b)
    \/ f32_le(b, x) /\ f32_le(x, a)

Smoothing == Drove /\ f32_lt(F0, PreA.retention) /\ f32_lt(PreA.retention, F1)
               /\ f32_lt(F0, last.time)

\* C7 as stated (its safety part): with retention in (0, 1) and d > 0 a
\* drive(d) call never moves current past target (so the distance is no
\* larger than before) and makes the distance strictly smaller when it was
\* not zero.
C7_Original ==
    Smoothing =>
        /\ Between(PreA.current, A.current, A.target)
        /\ PreA.current # PreA.target => A.current # PreA.current

\* C7 amended: with retention in (0, 1) and d > 0 a drive(d) call leaves
\* the distance |target - current| no larger than before.
C7_NoFarther ==
    Smoothing =>
        \/ Between(PreA.current, A.current, A.target)
        \/ /\ SubExact(A.target, A.current)
           /\ f32_lt(Dist(A), Dist(PreA))

C7_Witness ==
    /\ Smoothing
    /\ PreA.retention = RHalf
    /\ PreA.current = F1
    /\ PreA.target = F1up
    /\ A.current = F1

\* the component as it was when it was last set (run.start), its target
\* not having changed since
Start == [A EXCEPT !.current = run.start]

\* no operation of drive(delta_time) on self rounds
DriveExact(self, delta_time) ==
    /\ PowExact(self.retention, ToNat(delta_time))
    /\ SubExact(F1, powf(self.retention, delta_time))
    /\ SubExact(self.target, self.current)
    /\ MulExact(f32_sub(self.target, self.current),
                Percent(self.retention, delta_time))
    /\ AddExact(self.current,
                f32_mul(f32_sub(self.target, self.current),
                        Percent(self.retention, delta_time)))

TwoCalls ==
    /\ Len(run.times) = 2
    /\ PowModelled(A.retention, f32_add(run.times[1], run.times[2]))

OneCall ==
    TransformComponent_drive(Start, f32_add(run.times[1], run.times[2])).ret

NothingRounds ==
    /\ DriveExact(Start, run.times[1])
    /\ DriveExact(TransformComponent_drive(Start, run.times[1]).self, run.times[2])
    /\ DriveExact(Start, f32_add(run.times[1], run.times[2]))

\* C8 as stated: drive(a) then drive(b) leaves the same current as one
\* drive(a + b) from the same starting state.
C8_Original == TwoCalls => A.current = OneCall

\* C8 amended: drive(a) then drive(b) leaves the same current as one
\* drive(a + b) when a = 0 or b = 0 or no f32 operation of the three calls
\* rounds.
C8_ComposesWhenExact ==
    (TwoCalls /\ (run.times[1] = F0 \/ run.times[2] = F0 \/ NothingRounds))
        => A.current = OneCall

C8_Witness ==
    /\ TwoCalls
    /\ run.times = <<F1, F2>>
    /\ NothingRounds
    /\ A.retention = RHalf
    /\ run.start # A.target
    /\ A.current = OneCall

====
